---- MODULE Spec2Model ----
(***************************************************************************)
(* PDF_Compiler: the combination handler of the PDF management tool,       *)
(* PDFToolApp._perform_pdf_combination (src/pdf_manager.py).                *)
(*                                                                         *)
(* One run of the handler is modelled step by step: the early returns, the *)
(* per-file loop (cancel check, existence check, PNG conversion, append),  *)
(* the step after the loop (cancel / no content / write), the write of the *)
(* output, the deletion of originals and the finally block.                *)
(*                                                                         *)
(* The file system is a map from paths to file contents.  A path is a pair *)
(* <<"in", j>> (the j-th file of the combine list), <<"tmp", j>> (the      *)
(* "_temp_conversion_<basename>.pdf" file of input j in the output         *)
(* directory) or <<"new", 0>> (a path that names no file before the run).  *)
(* A PDF page is a pair <<j, p>>: page p of input j.                       *)
(***************************************************************************)
EXTENDS Integers, Sequences, FiniteSets, TLC

\* Bounds of the model.
MaxFiles == 3
MaxPages == 2
\* Longest combine list of the specifications with the wider input domains.
SmallFiles == 2

\* The source list only offers files whose name ends in .pdf or .png, and the
\* combine list is filled from the source list only.
Kinds == {"pdf", "png"}

Slots == 1..MaxFiles

In(j) == <<"in", j>>
Tmp(j) == <<"tmp", j>>
NewPath == <<"new", 0>>
Paths == {In(j) : j \in Slots} \cup {Tmp(j) : j \in Slots} \cup {NewPath}

\* The empty string returned by QFileDialog.getSaveFileName when dismissed.
NoName == <<"", 0>>

NoFile == [tag |-> "none", pages |-> <<>>, complete |-> FALSE]

\* An input file as it is on disk before the run: its kind (extension),
\* whether it still exists, whether its content can be decoded, and its pages.
\* Of a file that is gone or cannot be decoded no page is ever read, and a file
\* that is gone is skipped before its extension is looked at.  The PDFs are
\* empty, of one page, or of MaxPages pages.
PageCounts == {0, 1, MaxPages}

\* The size <<width, height>> of the pages of a file, in points: the page box
\* of a PDF, the pixel size of a PNG.  Portrait A4, landscape A4, Letter.
PortraitA4 == <<595, 842>>
PageSizes == {PortraitA4, <<842, 595>>, <<612, 792>>}

FileDescs ==
    [kind : {"pdf"}, exists : {TRUE}, ok : {TRUE}, pages : PageCounts, size : {PortraitA4}]
    \cup [kind : {"png"}, exists : {TRUE}, ok : {TRUE}, pages : {1}, size : {PortraitA4}]
    \cup [kind : Kinds, exists : {TRUE}, ok : {FALSE}, pages : {0}, size : {PortraitA4}]
    \cup [kind : {"pdf"}, exists : {FALSE}, ok : {TRUE}, pages : {0}, size : {PortraitA4}]

InputLists == UNION {[1..n -> FileDescs] : n \in 0..MaxFiles}

\* Intact inputs of every page size.
GeomDescs ==
    [kind : {"pdf"}, exists : {TRUE}, ok : {TRUE}, pages : {1, MaxPages}, size : PageSizes]
    \cup [kind : {"png"}, exists : {TRUE}, ok : {TRUE}, pages : {1}, size : PageSizes]

GeomLists == UNION {[1..n -> GeomDescs] : n \in 0..SmallFiles}

\* Inputs as the handler itself classifies them: besides .png and .pdf any
\* other extension (the else branch of line 794), here a one-page document.
AllKinds == Kinds \cup {"other"}

AnyDescs ==
    [kind : AllKinds, exists : {TRUE}, ok : {TRUE}, pages : {1}, size : {PortraitA4}]
    \cup [kind : {"pdf"}, exists : {TRUE}, ok : {TRUE}, pages : {MaxPages}, size : {PortraitA4}]

AnyLists == UNION {[1..n -> AnyDescs] : n \in 0..SmallFiles}

VARIABLES
    files,                \* the input files, in combine-list order
    delete_originals,     \* config['delete_originals_on_action']
    selected_files_list,  \* the combine list (indices into files)
    fs,                   \* the file system
    pc,                   \* position of the handler
    ordered_files_to_combine,
    output_filename,
    merger,               \* pages of the PdfWriter
    temp_pdf_files_created,
    original_files_processed_for_deletion,
    i,                    \* loop index (0-based, as in the source)
    actual_pdf_to_merge,
    progress,             \* the QProgressDialog
    messages,             \* per-file notices shown, in order
    result,               \* the whole-run message box shown, "none" before
    img_doc,              \* the input whose fitz document is open, NoName if none
    other_temps,          \* temporary files written by a second, concurrent run
    order,                \* order spinbox value of the list entry of each file
    btn_combine_files,    \* btn_combine_files.isEnabled()
    image_path1,          \* Image Blender: the file chosen for each layer,
    image_path2,
    pil_image1,           \*   the image loaded for each layer,
    pil_image2,
    blended_image,        \*   the result of the last blend,
    save_button,          \*   save_button.isEnabled(),
    result_preview_label, \*   what the result preview shows,
    blend_box             \*   the last message box of the dialog

vars == <<files, delete_originals, selected_files_list, fs, pc,
          ordered_files_to_combine, output_filename, merger,
          temp_pdf_files_created, original_files_processed_for_deletion,
          i, actual_pdf_to_merge, progress, messages, result, img_doc,
          other_temps, order, btn_combine_files, image_path1, image_path2,
          pil_image1, pil_image2, blended_image, save_button,
          result_preview_label, blend_box>>

\* The state of the Image Blender dialog.
blendVars == <<image_path1, image_path2, pil_image1, pil_image2, blended_image,
               save_button, result_preview_label, blend_box>>

----------------------------------------------------------------------------
\* Helpers on sequences.

Range(s) == {s[k] : k \in 1..Len(s)}

RECURSIVE RemoveFirst(_, _)
\* list.remove(x): removes the first occurrence of x.
RemoveFirst(s, x) ==
    IF s = <<>> THEN <<>>
    ELSE IF Head(s) = x THEN Tail(s)
    ELSE <<Head(s)>> \o RemoveFirst(Tail(s), x)

RECURSIVE Filter(_, _)
Filter(s, keep) ==
    IF s = <<>> THEN <<>>
    ELSE IF Head(s) \in keep THEN <<Head(s)>> \o Filter(Tail(s), keep)
    ELSE Filter(Tail(s), keep)

\* The content of input j as it is on disk before the run.
OriginalContent(d, j) ==
    IF d.exists
    THEN [tag |-> "orig", pages |-> [p \in 1..d.pages |-> <<j, p>>], complete |-> TRUE]
    ELSE NoFile

----------------------------------------------------------------------------
\* QProgressDialog("Combining files...", "Cancel", 0, n, self), window-modal,
\* minimumDuration 0, autoReset and autoClose left at their defaults (true).
\*   canceled   : wasCanceled()
\*   shown_once : the dialog is on screen, so setValue() processes events

ProgressInit == [canceled |-> FALSE, shown_once |-> FALSE]

\* reset(): "wasCanceled() becomes false until the dialog is cancelled again";
\* the dialog is hidden (autoClose).
ProgressReset(p) == [canceled |-> FALSE, shown_once |-> FALSE]

\* cancel(): the Cancel button; resets the dialog, then wasCanceled() is true.
ProgressCancel(p) == [canceled |-> TRUE, shown_once |-> FALSE]

\* progress.setValue(v).  A modal dialog that is on screen processes pending
\* events, so a click on Cancel is delivered here (click); a dialog not yet on
\* screen is shown by the first setValue above the minimum.  As soon as the value
\* equals the maximum the dialog resets itself (autoReset).
ProgressSetValue(p, v, max, click) ==
    LET q == IF p.shown_once
             THEN (IF click THEN ProgressCancel(p) ELSE p)
             ELSE (IF v = 0 THEN p ELSE [p EXCEPT !.shown_once = TRUE])
    IN IF v = max THEN ProgressReset(q) ELSE q

\* A QMessageBox runs a nested event loop: the dialog's show timer
\* (minimumDuration 0) fires and puts a dialog not yet shown on screen.  The
\* message box is modal, so Cancel cannot be clicked while it is up.
ProgressAfterMessageBox(p) ==
    IF ~p.shown_once /\ ~p.canceled THEN [p EXCEPT !.shown_once = TRUE] ELSE p

----------------------------------------------------------------------------
\* The combine list.  An entry is the index of its file; the file names of a
\* directory are distinct, and file j is taken to come j-th by name.  The
\* order spinbox of the entry of file j holds order[j]; a file without an
\* entry has none (0).

NoOrder == [j \in Slots |-> 0]

\* The spinbox values of the entries of list l.
OrdersOf(ord, l) == [j \in Slots |-> IF j \in Range(l) THEN ord[j] ELSE 0]

\* Variant: the entries are sorted by file name only.
KeyBefore_NameOnly(a, b, ord) == a < b

\* x['order'], x['filename'] of one entry sorts before that of another.
KeyBefore(a, b, ord) == ord[a] < ord[b] \/ (ord[a] = ord[b] /\ a < b)

RECURSIVE InsertByKey(_, _, _)
InsertByKey(x, l, ord) ==
    IF l = <<>> THEN <<x>>
    ELSE IF KeyBefore(x, Head(l), ord) THEN <<x>> \o l
    ELSE <<Head(l)>> \o InsertByKey(x, Tail(l), ord)

\* _sort_selected_files_list_by_spinbox: the entries are read, sorted (stably)
\* by (order, filename), and the list is rebuilt in that order.
RECURSIVE SortBySpinbox(_, _)
SortBySpinbox(l, ord) ==
    IF l = <<>> THEN <<>>
    ELSE InsertByKey(l[Len(l)], SortBySpinbox(SubSeq(l, 1, Len(l) - 1), ord), ord)

\* Variant: the button is enabled whatever the list holds.
CanCombine_Always(l) == TRUE

\* _update_button_states, lines 551-552: can_combine = count() > 0.
CanCombine(l) == Len(l) > 0

----------------------------------------------------------------------------
\* The Image Blender dialog (image_blender_gui.py): no file chosen, no image.

NoImage == [size |-> <<0, 0>>, mode |-> "none"]

----------------------------------------------------------------------------
\* The state before the "Combine Selected Files into PDF" button is clicked.

FsInit(fl) ==
    [p \in Paths |->
        IF p[1] = "in" /\ p[2] \in 1..Len(fl) THEN OriginalContent(fl[p[2]], p[2])
        ELSE NoFile]

\* What every specification starts from: no run started, the Image Blender
\* dialog as constructed.
InitCommon ==
    /\ fs = FsInit(files)
    /\ pc = "idle"
    /\ ordered_files_to_combine = <<>>
    /\ output_filename = NoName
    /\ merger = <<>>
    /\ temp_pdf_files_created = <<>>
    /\ original_files_processed_for_deletion = <<>>
    /\ i = 0
    /\ actual_pdf_to_merge = NoName
    /\ progress = ProgressInit
    /\ messages = <<>>
    /\ result = "none"
    /\ img_doc = NoName
    /\ other_temps = {}
    /\ btn_combine_files = CanCombine(selected_files_list)
    /\ image_path1 = "none"
    /\ image_path2 = "none"
    /\ pil_image1 = NoImage
    /\ pil_image2 = NoImage
    /\ blended_image = NoImage
    /\ save_button = FALSE
    /\ result_preview_label = "Result will appear here"
    /\ blend_box = "none"

\* The files of the directory are all in the combine list, in the order and
\* with the order values in which one Add has put them there.
InitWith(lists) ==
    /\ files \in lists
    /\ delete_originals \in BOOLEAN
    /\ selected_files_list = [k \in 1..Len(files) |-> k]
    /\ order = [j \in Slots |-> IF j <= Len(files) THEN j ELSE 0]
    /\ InitCommon

Init == InitWith(InputLists)

\* The same state over intact inputs of every page size.
InitGeom == InitWith(GeomLists)

\* The same state over a combine list holding files of any extension.
InitAny == InitWith(AnyLists)

\* The paths the user can give to the save dialog: a new file, one of the
\* listed input files, or the name of a temporary conversion file.
OutputChoices(n) == {NewPath} \cup {In(j) : j \in 1..n} \cup {Tmp(j) : j \in 1..n}

\* Variant: the check for an empty combine list is missing.
ListEmpty_Never(l) == FALSE

\* if self.selected_files_list.count() == 0
ListEmpty(l) == Len(l) = 0

\* Lines 712-757: the early returns and the set-up of the run.
Start ==
    /\ pc = "idle"
    /\ IF ListEmpty(selected_files_list)
       THEN /\ result' = "No Files Selected"
            /\ pc' = "done"
            /\ UNCHANGED <<ordered_files_to_combine, output_filename>>
       ELSE IF selected_files_list = <<>>
       THEN /\ result' = "Error"
            /\ pc' = "done"
            /\ ordered_files_to_combine' = selected_files_list
            /\ UNCHANGED output_filename
       ELSE \E makedirs_ok \in BOOLEAN :
            \E name \in OutputChoices(Len(selected_files_list)) \cup {NoName} :
               /\ ordered_files_to_combine' = selected_files_list
               /\ IF ~makedirs_ok
                  THEN /\ result' = "Directory Error"
                       /\ pc' = "done"
                       /\ UNCHANGED output_filename
                  ELSE IF name = NoName
                  THEN /\ result' = "none"
                       /\ pc' = "done"
                       /\ UNCHANGED output_filename
                  ELSE /\ output_filename' = name
                       /\ result' = "none"
                       /\ pc' = "loop"
    /\ merger' = <<>>
    /\ temp_pdf_files_created' = <<>>
    /\ original_files_processed_for_deletion' = <<>>
    /\ progress' = ProgressInit
    /\ i' = 0
    /\ UNCHANGED <<blendVars, order, btn_combine_files, files, img_doc, other_temps, delete_originals, selected_files_list, fs,
                   actual_pdf_to_merge, messages>>

----------------------------------------------------------------------------
\* The loop over ordered_files_to_combine (lines 760-810).

N == Len(ordered_files_to_combine)

\* The file of the current iteration.
Cur == ordered_files_to_combine[i + 1]

Notice(title, j) == [title |-> title, file |-> j]

\* Variant: the cancel check never leaves the loop.
CancelCheck_Ignored(p) == FALSE

\* if progress.wasCanceled(): break
CancelCheck(p) == p.canceled

\* Lines 760-765: the head of an iteration, or the end of the for loop.
LoopTop ==
    /\ pc = "loop"
    /\ IF i < N
       THEN \E click \in BOOLEAN :
              /\ progress' = ProgressSetValue(progress, i, N, click)
              /\ pc' = IF CancelCheck(progress') THEN "after_loop" ELSE "file"
       ELSE /\ pc' = "after_loop"
            /\ UNCHANGED progress
    /\ UNCHANGED <<blendVars, order, btn_combine_files, files, img_doc, other_temps, delete_originals, selected_files_list, fs,
                   ordered_files_to_combine, output_filename, merger,
                   temp_pdf_files_created, original_files_processed_for_deletion,
                   i, actual_pdf_to_merge, messages, result>>

\* Variant: the loop stays on the same file.
NextIndex_Stay(k) == k

\* for i, file_path in enumerate(ordered_files_to_combine): the next iteration
\* takes the next file of the list.
NextIndex(k) == k + 1

\* Variant: a failed file ends the loop (break) instead of being skipped.
SkipFile_Break(title, box) ==
    /\ messages' = Append(messages, Notice(title, Cur))
    /\ progress' = IF box THEN ProgressAfterMessageBox(progress) ELSE progress
    /\ i' = i
    /\ pc' = "after_loop"
    /\ actual_pdf_to_merge' = NoName

\* "continue" after a file that could not be processed: a notice is shown and
\* the loop goes on with the next file.
SkipFile(title, box) ==
    /\ messages' = Append(messages, Notice(title, Cur))
    /\ progress' = IF box THEN ProgressAfterMessageBox(progress) ELSE progress
    /\ i' = NextIndex(i)
    /\ pc' = "loop"
    /\ actual_pdf_to_merge' = NoName

\* fitz.open, img_doc.convert_to_pdf() and the write of the temporary PDF
\* (lines 772-777).  An undecodable image is refused by fitz.open or by
\* convert_to_pdf; the write of the temporary file can fail before the file is
\* created or after part of it is written.
ConversionOutcomes(d) ==
    IF d.ok THEN {"ok", "io_open", "io_write"} ELSE {"fitz_open", "fitz_convert"}

\* The document bound to img_doc after the try block of lines 771-790 for
\* input j.  img_doc.close() (line 774) is outside any finally: it is skipped
\* when convert_to_pdf raises, and the open document stays bound to img_doc.
\* When fitz.open raises, img_doc keeps what it was bound to.
ImgDocAfter(doc, j, o) ==
    IF o = "fitz_open" THEN doc
    ELSE IF o = "fitz_convert" THEN In(j)
    ELSE NoName

\* Variant: a converted image yields a temporary PDF of two pages.
TempContent_TwoPages(j, full) ==
    [tag |-> "temp", pages |-> IF full THEN <<<<j, 1>>, <<j, 1>>>> ELSE <<>>,
     complete |-> full]

\* The temporary PDF of input j: one page holding the image.
TempContent(j, full) ==
    [tag |-> "temp", pages |-> IF full THEN <<<<j, 1>>>> ELSE <<>>, complete |-> full]

\* Variant: every file that is not a PNG is merged as a PDF.
Classify_UnknownAsPdf(kind) ==
    IF kind = "png" THEN "convert" ELSE "merge"

\* The if / elif / else on the lower-cased extension (lines 770, 791, 794).
Classify(kind) ==
    IF kind = "png" THEN "convert"
    ELSE IF kind = "pdf" THEN "merge"
    ELSE "unsupported"

\* Lines 766-796: existence check, classification by extension, conversion.
OpenFile ==
    /\ pc = "file"
    /\ LET j == Cur
           d == files[j]
       IN IF fs[In(j)].tag = "none"
          THEN /\ SkipFile("File Not Found", TRUE)
               /\ UNCHANGED <<fs, temp_pdf_files_created,
                              original_files_processed_for_deletion, img_doc>>
          ELSE IF Classify(d.kind) = "convert"
          THEN \E o \in ConversionOutcomes(d) :
                 /\ img_doc' = ImgDocAfter(img_doc, j, o)
                 /\ IF o = "ok"
                    THEN /\ fs' = [fs EXCEPT ![Tmp(j)] = TempContent(j, TRUE)]
                         /\ actual_pdf_to_merge' = Tmp(j)
                         /\ temp_pdf_files_created' = Append(temp_pdf_files_created, Tmp(j))
                         /\ original_files_processed_for_deletion' =
                               Append(original_files_processed_for_deletion, In(j))
                         /\ pc' = "append"
                         /\ UNCHANGED <<i, messages, progress>>
                    ELSE /\ SkipFile("PNG Conversion Error", TRUE)
                         /\ fs' = IF o = "io_write"
                                  THEN [fs EXCEPT ![Tmp(j)] = TempContent(j, FALSE)]
                                  ELSE fs
                         /\ UNCHANGED <<temp_pdf_files_created,
                                        original_files_processed_for_deletion>>
          ELSE IF Classify(d.kind) = "merge"
          THEN /\ actual_pdf_to_merge' = In(j)
               /\ original_files_processed_for_deletion' =
                     Append(original_files_processed_for_deletion, In(j))
               /\ pc' = "append"
               /\ UNCHANGED <<fs, temp_pdf_files_created, i, messages, progress, img_doc>>
          ELSE /\ SkipFile("Skipping unsupported file", FALSE)
               /\ UNCHANGED <<fs, temp_pdf_files_created,
                              original_files_processed_for_deletion, img_doc>>
    /\ UNCHANGED <<blendVars, order, btn_combine_files, files, other_temps, delete_originals, selected_files_list,
                   ordered_files_to_combine, output_filename, merger, result>>

\* What PdfWriter.append reads from a path: the pages of an intact PDF.
Readable(c, d) == c.tag = "temp" \/ (c.tag = "orig" /\ d.ok)

\* Variant: the appended pages are put in front of the pages merged so far.
MergerAppend_Prepend(m, pgs) == pgs \o m

\* merger.append(path): the pages of the file, in document order, go to the end.
MergerAppend(m, pgs) == m \o pgs

\* merger.append copies the pages of the file as they are: a page of the
\* output has the page box of its source page, no content transform is put in
\* front of it (scale sn/sd, translation tx, ty) and it is not rotated.
OutputPageSize(pg) == files[pg[1]].size

AppliedTransform(pg) == [sn |-> 1, sd |-> 1, tx |-> 0, ty |-> 0]

AppliedRotation(pg) == 0

\* Variant: a file whose append failed stays in the list of processed originals.
AppendFailed_KeepsEntry(dl, path) == dl

\* The except branches of the append (lines 800-810): the file leaves the list
\* of processed originals.
AppendFailed(dl, path) == IF path \in Range(dl) THEN RemoveFirst(dl, path) ELSE dl

\* Lines 797-810: append the PDF (the original or the converted temporary).
AppendFile ==
    /\ pc = "append"
    /\ LET j == Cur
           c == fs[actual_pdf_to_merge]
       IN IF Readable(c, files[j])
          THEN /\ merger' = MergerAppend(merger, c.pages)
               /\ i' = NextIndex(i)
               /\ pc' = "loop"
               /\ actual_pdf_to_merge' = NoName
               /\ UNCHANGED <<original_files_processed_for_deletion, messages, progress>>
          ELSE /\ SkipFile("PDF Append Error", TRUE)
               /\ original_files_processed_for_deletion' =
                     AppendFailed(original_files_processed_for_deletion, In(j))
               /\ UNCHANGED merger
    /\ UNCHANGED <<blendVars, order, btn_combine_files, files, img_doc, other_temps, delete_originals, selected_files_list, fs,
                   ordered_files_to_combine, output_filename,
                   temp_pdf_files_created, result>>

----------------------------------------------------------------------------
\* After the loop (lines 811-884).

\* Variant: the output is written whether or not pages were merged.
HasPages_Always(m) == TRUE

\* elif not merger.pages
HasPages(m) == Len(m) > 0

\* Lines 811-816: the dialog is set to its maximum, then the run is reported
\* as canceled, as without content, or goes on to write the output.
AfterLoop ==
    /\ pc = "after_loop"
    /\ \E click \in BOOLEAN :
          progress' = ProgressSetValue(progress, N, N, click)
    /\ IF progress'.canceled
       THEN /\ result' = "Combination Canceled"
            /\ pc' = "finally"
       ELSE IF ~HasPages(merger)
       THEN /\ result' = "No Content"
            /\ pc' = "finally"
       ELSE /\ pc' = "write"
            /\ UNCHANGED result
    /\ UNCHANGED <<blendVars, order, btn_combine_files, files, img_doc, other_temps, delete_originals, selected_files_list, fs,
                   ordered_files_to_combine, output_filename, merger,
                   temp_pdf_files_created, original_files_processed_for_deletion,
                   i, actual_pdf_to_merge, messages>>

\* Variant: the first page of the writer is not written.
OutContent_DropsFirst(pgs, done) ==
    [tag |-> "out", pages |-> IF pgs = <<>> THEN pgs ELSE Tail(pgs), complete |-> done]

\* The file merger.write produces: the pages of the writer, in their order.
OutContent(pgs, done) == [tag |-> "out", pages |-> pgs, complete |-> done]

\* Variant: a failed write is reported like a successful run.
WriteErrorReport_AsSuccess == "Combination Successful"

\* The message box of the except branches around the whole run (lines
\* 865-874): QMessageBox.critical(self, "Combination Error", ...).
WriteErrorReport == "Combination Error"

\* Line 817, first half: merger.write opens output_filename for writing, which
\* creates or truncates the file.  A path that cannot be opened raises an
\* IOError, handled at lines 868-870.
WriteOpen ==
    /\ pc = "write"
    /\ \E opened \in BOOLEAN :
          IF opened
          THEN /\ fs' = [fs EXCEPT ![output_filename] = OutContent(<<>>, FALSE)]
               /\ pc' = "writing"
               /\ UNCHANGED result
          ELSE /\ result' = WriteErrorReport
               /\ pc' = "finally"
               /\ UNCHANGED fs
    /\ UNCHANGED <<blendVars, order, btn_combine_files, files, img_doc, other_temps, delete_originals, selected_files_list,
                   ordered_files_to_combine, output_filename, merger,
                   temp_pdf_files_created, original_files_processed_for_deletion,
                   i, actual_pdf_to_merge, progress, messages>>

\* Line 817, second half: the document is streamed into the open file.  The
\* write can fail part-way (disk full); the exception is handled at lines
\* 865-874 and the file stays as it is, started and incomplete (what exactly a
\* truncated file holds is not modelled).
WriteBody ==
    /\ pc = "writing"
    /\ \E completed \in BOOLEAN :
          IF completed
          THEN /\ fs' = [fs EXCEPT ![output_filename] = OutContent(merger, TRUE)]
               /\ pc' = "written"
               /\ UNCHANGED result
          ELSE /\ result' = WriteErrorReport
               /\ pc' = "finally"
               /\ UNCHANGED fs
    /\ UNCHANGED <<blendVars, order, btn_combine_files, files, img_doc, other_temps, delete_originals, selected_files_list,
                   ordered_files_to_combine, output_filename, merger,
                   temp_pdf_files_created, original_files_processed_for_deletion,
                   i, actual_pdf_to_merge, progress, messages>>

\* Lines 818-848: the success message.  Saving the check-box states and
\* starting Inkscape or LibreOffice change nothing of the state modelled here.
ReportSuccess ==
    /\ pc = "written"
    /\ result' = "Combination Successful"
    /\ pc' = "delete"
    /\ UNCHANGED <<blendVars, order, btn_combine_files, files, img_doc, other_temps, delete_originals, selected_files_list, fs,
                   ordered_files_to_combine, output_filename, merger,
                   temp_pdf_files_created, original_files_processed_for_deletion,
                   i, actual_pdf_to_merge, progress, messages>>

\* Variant: the originals are deleted whatever the configuration says.
ShouldDelete_IgnoresConfig(cfg, p) == ~p.canceled

\* if self.config.get('delete_originals_on_action', False) and not progress.wasCanceled()
ShouldDelete(cfg, p) == cfg /\ ~p.canceled

\* Variant: every file of the combine list is removed.
RemoveOriginals_WholeList(f, dl, temps) ==
    [p \in Paths |-> IF p \in {In(j) : j \in Range(ordered_files_to_combine)}
                     THEN NoFile ELSE f[p]]

\* Lines 852-858: os.remove of every listed original that exists and is not a
\* temporary file of this run.
RemoveOriginals(f, dl, temps) ==
    [p \in Paths |-> IF p \in Range(dl) /\ p \notin Range(temps) THEN NoFile ELSE f[p]]

\* _reconcile_selected_files_list: entries whose file no longer exists leave
\* the combine list.
Reconcile(l, f) == Filter(l, {j \in Slots : f[In(j)].tag # "none"})

\* Lines 849-864: deletion of the originals, inside the success branch.
DeleteOriginals ==
    /\ pc = "delete"
    /\ IF ShouldDelete(delete_originals, progress)
       THEN /\ fs' = RemoveOriginals(fs, original_files_processed_for_deletion,
                                     temp_pdf_files_created)
            /\ LET kept == Reconcile(selected_files_list, fs')
               IN /\ selected_files_list' =
                        IF kept # selected_files_list
                        THEN SortBySpinbox(kept, order) ELSE kept
                  /\ order' = OrdersOf(order, kept)
                  /\ btn_combine_files' = CanCombine(kept)
       ELSE UNCHANGED <<fs, selected_files_list, order, btn_combine_files>>
    /\ pc' = "finally"
    /\ UNCHANGED <<blendVars, files, img_doc, other_temps, delete_originals,
                   ordered_files_to_combine, output_filename, merger,
                   temp_pdf_files_created, original_files_processed_for_deletion,
                   i, actual_pdf_to_merge, progress, messages, result>>

\* Lines 877-882: os.remove of every temporary file of the run that exists.
RemoveTemps(f, temps) == [p \in Paths |-> IF p \in Range(temps) THEN NoFile ELSE f[p]]

\* Lines 875-884: the finally block, and the return of the handler, which
\* releases the locals and with them a document still bound to img_doc.
Finally ==
    /\ pc = "finally"
    /\ fs' = RemoveTemps(fs, temp_pdf_files_created)
    /\ img_doc' = NoName
    /\ btn_combine_files' = CanCombine(selected_files_list)
    /\ pc' = "done"
    /\ UNCHANGED <<blendVars, order, files, other_temps, delete_originals,
                   selected_files_list,
                   ordered_files_to_combine, output_filename, merger,
                   temp_pdf_files_created, original_files_processed_for_deletion,
                   i, actual_pdf_to_merge, progress, messages, result>>

Next ==
    \/ Start
    \/ LoopTop
    \/ OpenFile
    \/ AppendFile
    \/ AfterLoop
    \/ WriteOpen
    \/ WriteBody
    \/ ReportSuccess
    \/ DeleteOriginals
    \/ Finally

Spec == Init /\ [][Next]_vars

SpecGeom == InitGeom /\ [][Next]_vars

SpecAny == InitAny /\ [][Next]_vars

----------------------------------------------------------------------------
\* A second run, of another instance of the application opened on the same
\* factory paperwork directory and saving to another output path.  Its
\* temporary files are named after output_dir and the base name of the input
\* only (line 775), so for the same PNG it uses the same path as this run.
\* Of the second run only what it does to these paths is modelled.

\* Lines 772-779 of the second run: it converts PNG j and writes the
\* temporary PDF.
OtherRunConvert ==
    /\ \E j \in 1..Len(files) :
          /\ files[j].kind = "png" /\ files[j].ok
          /\ fs[In(j)].tag # "none"
          /\ Tmp(j) \notin other_temps
          /\ fs' = [fs EXCEPT ![Tmp(j)] = TempContent(j, TRUE)]
          /\ other_temps' = other_temps \cup {Tmp(j)}
    /\ UNCHANGED <<blendVars, order, btn_combine_files, files, img_doc, delete_originals, selected_files_list,
                   ordered_files_to_combine, output_filename, merger,
                   temp_pdf_files_created, original_files_processed_for_deletion,
                   i, actual_pdf_to_merge, progress, messages, result, pc>>

\* Lines 877-882 of the second run: it removes its temporary files.
OtherRunFinally ==
    /\ other_temps # {}
    /\ fs' = [p \in Paths |-> IF p \in other_temps THEN NoFile ELSE fs[p]]
    /\ other_temps' = {}
    /\ UNCHANGED <<blendVars, order, btn_combine_files, files, img_doc, delete_originals, selected_files_list,
                   ordered_files_to_combine, output_filename, merger,
                   temp_pdf_files_created, original_files_processed_for_deletion,
                   i, actual_pdf_to_merge, progress, messages, result, pc>>

NextTwo ==
    \/ Next
    \/ OtherRunConvert
    \/ OtherRunFinally

SpecTwo == InitGeom /\ [][NextTwo]_vars

----------------------------------------------------------------------------
\* The handlers of the main window that edit the combine list.  They run
\* while no combination is running (the progress dialog and the message
\* boxes of a run are modal).  They are taken before the run: what a run
\* leaves for them (a list without the entries of deleted files, files gone
\* from the directory) is also reached by removing entries and by conversions
\* that delete their original.

\* The state of a combination run.
runVars == <<pc, ordered_files_to_combine, output_filename, merger,
             temp_pdf_files_created, original_files_processed_for_deletion,
             i, actual_pdf_to_merge, progress, messages, result, img_doc,
             other_temps>>

NoRun == pc = "idle"

\* The source list after its last reload: the files that are in the directory.
SourceItems == {j \in 1..Len(files) : fs[In(j)].tag # "none"}

\* The items selected in the source list when Add is clicked, in list order.
\* selectedItems() holds an item once; a batch naming a file twice is
\* enumerated too, since the handler guards against it (line 481).
Batches == UNION {[1..n -> SourceItems] : n \in 1..2}

\* The values typed into an order spinbox.
OrderValues == 1..SmallFiles

\* Variant: a file is added whether or not it is listed.
NotListed_Always(paths, p) == TRUE

\* if full_path not in current_selected_paths
NotListed(paths, p) == p \notin paths

\* The loop of lines 471-483 over the selected source items: a file not yet
\* listed gets an entry at the end with the next order value.
RECURSIVE AddItems(_, _, _, _)
AddItems(batch, l, ord, next) ==
    IF batch = <<>> THEN [l |-> l, ord |-> ord]
    ELSE IF NotListed(Range(l), Head(batch))
    THEN AddItems(Tail(batch), Append(l, Head(batch)),
                  [ord EXCEPT ![Head(batch)] = next], next + 1)
    ELSE AddItems(Tail(batch), l, ord, next)

\* _add_to_selected_list_handler (lines 457-487).
AddToSelected ==
    /\ NoRun
    /\ \E batch \in Batches :
          LET r == AddItems(batch, selected_files_list, order,
                            Len(selected_files_list) + 1)
          IN /\ selected_files_list' =
                   IF r.l # selected_files_list
                   THEN SortBySpinbox(r.l, r.ord) ELSE selected_files_list
             /\ order' = r.ord
    /\ btn_combine_files' = CanCombine(selected_files_list')
    /\ UNCHANGED <<blendVars, runVars, files, delete_originals, fs>>

\* _remove_from_selected_list_handler (lines 489-496): the selected entries
\* are taken out of the list.
RemoveFromSelected ==
    /\ NoRun
    /\ \E gone \in (SUBSET Range(selected_files_list)) \ {{}} :
          selected_files_list' =
              Filter(selected_files_list, Range(selected_files_list) \ gone)
    /\ order' = OrdersOf(order, selected_files_list')
    /\ btn_combine_files' = CanCombine(selected_files_list')
    /\ UNCHANGED <<blendVars, runVars, files, delete_originals, fs>>

\* _selected_item_order_changed (lines 498-500): the value of one order
\* spinbox changes, and the list is sorted again.
SelectedItemOrderChanged ==
    /\ NoRun
    /\ \E j \in Range(selected_files_list) :
       \E v \in OrderValues \ {order[j]} :
          /\ order' = [order EXCEPT ![j] = v]
          /\ selected_files_list' = SortBySpinbox(selected_files_list, order')
    /\ btn_combine_files' = CanCombine(selected_files_list')
    /\ UNCHANGED <<blendVars, runVars, files, delete_originals, fs>>

\* _set_factory_paperwork_dir (lines 446-455): when a directory is chosen the
\* combine list is cleared.  (The directory chosen holds the same files.)
SetFactoryPaperworkDir ==
    /\ NoRun
    /\ \E chosen \in BOOLEAN :
          IF chosen
          THEN /\ selected_files_list' = <<>>
               /\ order' = NoOrder
          ELSE UNCHANGED <<selected_files_list, order>>
    /\ btn_combine_files' = CanCombine(selected_files_list')
    /\ UNCHANGED <<blendVars, runVars, files, delete_originals, fs>>

\* _show_settings_dialog (lines 554-572): an accepted dialog stores the
\* delete-originals check box and reloads the source list.
ShowSettingsDialog ==
    /\ NoRun
    /\ \E accepted \in BOOLEAN, box \in BOOLEAN :
          IF accepted
          THEN /\ delete_originals' = box
               /\ btn_combine_files' = CanCombine(selected_files_list)
          ELSE UNCHANGED <<delete_originals, btn_combine_files>>
    /\ UNCHANGED <<blendVars, runVars, files, selected_files_list, order, fs>>

\* _convert_selected_pdf_to_png and _convert_selected_png_to_pdf (lines
\* 604-710): a file of the source list is converted into a file of the other
\* kind next to it; after a successful conversion the original is removed if
\* delete-originals is on, and the source list is reloaded.  The combine list
\* is not touched.  (The file written is none of the files modelled here.)
ConvertSelected ==
    /\ NoRun
    /\ \E j \in SourceItems, converted \in BOOLEAN :
          IF converted
          THEN /\ fs' = IF delete_originals
                        THEN [fs EXCEPT ![In(j)] = NoFile] ELSE fs
               /\ btn_combine_files' = CanCombine(selected_files_list)
          ELSE UNCHANGED <<fs, btn_combine_files>>
    /\ UNCHANGED <<blendVars, runVars, files, delete_originals,
                   selected_files_list, order>>

NextList ==
    \/ Next
    \/ AddToSelected
    \/ RemoveFromSelected
    \/ SelectedItemOrderChanged
    \/ SetFactoryPaperworkDir
    \/ ShowSettingsDialog
    \/ ConvertSelected

\* The directory of the list specification: intact one-page files, PDF and
\* PNG in turn.
ListFiles ==
    [j \in 1..SmallFiles |->
        [kind |-> IF j % 2 = 1 THEN "pdf" ELSE "png", exists |-> TRUE, ok |-> TRUE,
         pages |-> 1, size |-> PortraitA4]]

\* The main window after construction: the combine list is empty.
InitList ==
    /\ files = ListFiles
    /\ delete_originals \in BOOLEAN
    /\ selected_files_list = <<>>
    /\ order = NoOrder
    /\ InitCommon

SpecList == InitList /\ [][NextList]_vars

----------------------------------------------------------------------------
\* The Image Blender dialog (image_blender_gui.py).

\* The state of the main window.
mainVars == <<runVars, files, delete_originals, selected_files_list, fs, order,
              btn_combine_files>>

\* The files offered to the file dialogs: two images of different size, a
\* PDF, and a file that cannot be decoded.
ImageFiles == {"small.png", "large.png", "page.pdf", "broken.png"}

\* _load_and_convert_image (lines 157-169): the image in RGBA, or None with a
\* "Load Error" box when the file cannot be opened or converted.
LoadAndConvertImage(f) ==
    IF f = "broken.png" THEN NoImage
    ELSE [size |-> IF f = "small.png" THEN <<1, 1>> ELSE <<2, 2>>, mode |-> "RGBA"]

\* The entries of blend_mode_combo (lines 111-114); _blend_images has a
\* branch for each of them.
BlendModes == {"Normal", "Multiply", "Screen", "Overlay", "Darken", "Lighten",
               "Add", "Subtract", "Difference"}

\* _browse_file1 (lines 139-146): a dismissed dialog changes nothing.
BrowseFile1 ==
    /\ \E f \in ImageFiles :
          /\ image_path1' = f
          /\ pil_image1' = LoadAndConvertImage(f)
          /\ blend_box' = IF pil_image1' = NoImage THEN "Load Error" ELSE blend_box
    /\ UNCHANGED <<mainVars, image_path2, pil_image2, blended_image, save_button,
                   result_preview_label>>

\* _browse_file2 (lines 148-155).
BrowseFile2 ==
    /\ \E f \in ImageFiles :
          /\ image_path2' = f
          /\ pil_image2' = LoadAndConvertImage(f)
          /\ blend_box' = IF pil_image2' = NoImage THEN "Load Error" ELSE blend_box
    /\ UNCHANGED <<mainVars, image_path1, pil_image1, blended_image, save_button,
                   result_preview_label>>

\* Variant: the button stays as it was when a blend fails.
SaveEnabledAfterError_Stays(enabled) == enabled

\* The except branch of _blend_images, line 292: save_button.setEnabled(False).
SaveEnabledAfterError(enabled) == FALSE

\* _blend_images (lines 197-292): without two loaded images a warning and
\* nothing else; otherwise the second layer is resized to the first and the
\* two are blended in the selected mode.  An exception in the try block
\* (raised) drops the blended image.
BlendImages ==
    /\ IF pil_image1 = NoImage \/ pil_image2 = NoImage
       THEN /\ blend_box' = "Error"
            /\ UNCHANGED <<blended_image, save_button, result_preview_label>>
       ELSE \E blend_mode \in BlendModes, raised \in BOOLEAN :
              IF raised
              THEN /\ blended_image' = NoImage
                   /\ save_button' = SaveEnabledAfterError(save_button)
                   /\ result_preview_label' = "Blending Error."
                   /\ blend_box' = "Blending Error"
              ELSE /\ blended_image' = [size |-> pil_image1.size, mode |-> blend_mode]
                   /\ save_button' = TRUE
                   /\ result_preview_label' = "pixmap"
                   /\ UNCHANGED blend_box
    /\ UNCHANGED <<mainVars, image_path1, image_path2, pil_image1, pil_image2>>

\* _save_result (lines 295-312), behind the enabled save button: the image is
\* written to the chosen file; the dialog state is not changed.
SaveResult ==
    /\ save_button
    /\ IF blended_image = NoImage
       THEN blend_box' = "Error"
       ELSE \E chosen \in BOOLEAN, saved \in BOOLEAN :
              blend_box' = IF ~chosen THEN blend_box
                           ELSE IF saved THEN "Saved" ELSE "Save Error"
    /\ UNCHANGED <<mainVars, image_path1, image_path2, pil_image1, pil_image2,
                   blended_image, save_button, result_preview_label>>

NextBlend ==
    \/ BrowseFile1
    \/ BrowseFile2
    \/ BlendImages
    \/ SaveResult

\* The dialog as constructed (lines 60-64, 133-137), over a main window
\* without files.
InitBlend ==
    /\ files = <<>>
    /\ delete_originals = FALSE
    /\ selected_files_list = <<>>
    /\ order = NoOrder
    /\ InitCommon

SpecBlend == InitBlend /\ [][NextBlend]_vars

----------------------------------------------------------------------------
\* Vocabulary of the properties.

\* The file at the chosen output path (no file before a path is chosen).
OutFile == IF output_filename \in Paths THEN fs[output_filename] ELSE NoFile

\* The run has entered the processing loop.
RunStarted == output_filename # NoName

\* The combined output has been written completely.
Written == OutFile.tag = "out" /\ OutFile.complete

\* The loop was left by the break of the cancel check.
PostLoop == {"after_loop", "write", "writing", "written", "delete", "finally", "done"}
Broke == RunStarted /\ pc \in PostLoop /\ i < N

PosOf(j) == CHOOSE k \in 1..N : ordered_files_to_combine[k] = j

\* A notice (skip) was shown for file j.
Skipped(j) == \E k \in 1..Len(messages) : messages[k].file = j

\* File j has been processed and no notice was shown for it.
Succeeded(j) == j \in Range(ordered_files_to_combine) /\ PosOf(j) <= i /\ ~Skipped(j)

CountOf(pgs, j) == Cardinality({x \in 1..Len(pgs) : pgs[x][1] = j})

\* Pages a file contributes when it is processed successfully.
ExpectedPages(j) == IF files[j].kind = "png" THEN 1 ELSE files[j].pages

RECURSIVE SumExpected(_)
SumExpected(S) ==
    IF S = {} THEN 0
    ELSE LET j == CHOOSE x \in S : TRUE IN ExpectedPages(j) + SumExpected(S \ {j})

\* Input j existed before the run and exists no more.
Deleted(j) == files[j].exists /\ fs[In(j)].tag = "none"

----------------------------------------------------------------------------
\* C1: the pages of the combined output (and of the writer at every moment)
\* are ordered by the position of their file in the combine list and, within
\* one file, by page number; skipped files do not disturb this order.
PageBefore(a, b) ==
    \/ PosOf(a[1]) < PosOf(b[1])
    \/ a[1] = b[1] /\ a[2] < b[2]

\* (PageBefore is transitive, so neighbours suffice.)
InOrder(pgs) == \A x \in 1..(Len(pgs) - 1) : PageBefore(pgs[x], pgs[x + 1])

C1_PageOrder ==
    /\ InOrder(merger)
    /\ OutFile.tag = "out" => InOrder(OutFile.pages)

\* A written output holding two pages of one file and a page of a later file,
\* with a skipped file between the two.
C1_Witness ==
    /\ Written
    /\ \E a, b, c \in Range(ordered_files_to_combine) :
          /\ PosOf(a) < PosOf(b) /\ PosOf(b) < PosOf(c)
          /\ CountOf(OutFile.pages, a) = 2
          /\ Skipped(b)
          /\ CountOf(OutFile.pages, c) >= 1

----------------------------------------------------------------------------
\* C2: a step that skips a failed file goes on with the next file and keeps
\* the pages merged so far and reports no whole-run outcome; a run whose loop
\* was not left by the cancel check has attempted every file of the list.
C2_FailureStep ==
    (pc \in {"file", "append"} /\ Len(messages') > Len(messages))
        => /\ i' = i + 1
           /\ pc' = "loop"
           /\ merger' = merger
           /\ result' = "none"

C2_AllAttempted ==
    (RunStarted /\ pc \in PostLoop /\ ~Broke)
        => \A j \in Range(ordered_files_to_combine) :
              Skipped(j) \/ In(j) \in Range(original_files_processed_for_deletion)

C2_FailureNeverAborts == [][C2_FailureStep]_vars /\ []C2_AllAttempted

\* A finished run in which a file was merged, the next was skipped, and the
\* one after was merged.
C2_Witness ==
    /\ pc = "done"
    /\ \E a, b, c \in Range(ordered_files_to_combine) :
          /\ PosOf(a) < PosOf(b) /\ PosOf(b) < PosOf(c)
          /\ CountOf(merger, a) >= 1
          /\ Skipped(b)
          /\ CountOf(merger, c) >= 1

----------------------------------------------------------------------------
\* C3: the written output has as many pages as the successfully processed
\* files contribute (the page count of a PDF, one page for a PNG); a skipped
\* file contributes no page and is not among the files recorded as processed,
\* which are the successful files in list order.
C3_PageCount ==
    Written =>
        LET ok == {j \in Range(ordered_files_to_combine) : Succeeded(j)}
            okSeq == Filter(ordered_files_to_combine, ok)
        IN /\ Len(OutFile.pages) = SumExpected(ok)
           /\ \A j \in ok : CountOf(OutFile.pages, j) = ExpectedPages(j)
           /\ \A j \in Range(ordered_files_to_combine) :
                 Skipped(j) => CountOf(OutFile.pages, j) = 0
           /\ original_files_processed_for_deletion = [k \in 1..Len(okSeq) |-> In(okSeq[k])]

\* [valid.pdf, corrupt.pdf, valid.png] written: pages of the PDF plus one.
C3_Witness ==
    /\ Written
    /\ N = 3
    /\ files[1].kind = "pdf" /\ files[1].pages = 2 /\ Succeeded(1)
    /\ files[2].kind = "pdf" /\ ~files[2].ok /\ Skipped(2)
    /\ files[3].kind = "png" /\ Succeeded(3)
    /\ Len(OutFile.pages) = 3

----------------------------------------------------------------------------
\* C4: a run whose loop was left by the cancel check after pages had been
\* merged ends with the "Combination Canceled" report and leaves no output
\* at the destination path.
C4_CancelDiscardsPages ==
    (pc = "done" /\ Broke /\ Len(merger) > 0)
        => /\ result = "Combination Canceled"
           /\ OutFile.tag # "out"

----------------------------------------------------------------------------
\* C5: cancellation takes effect only at the head of an iteration.  Once the
\* loop is left by the cancel check at index i, no file at index i or later is
\* touched (no notice, no page, no temporary file, no entry in the list of
\* processed originals); while a file is being processed the cancel flag does
\* not change and the file is carried through to its append or its skip.
Untouched(j) ==
    /\ ~Skipped(j)
    /\ CountOf(merger, j) = 0
    /\ In(j) \notin Range(original_files_processed_for_deletion)
    /\ Tmp(j) \notin Range(temp_pdf_files_created)
    /\ fs[Tmp(j)].tag # "temp"

C5_NothingAfterCancel ==
    Broke => \A k \in (i + 1)..N : Untouched(ordered_files_to_combine[k])

C5_FileStep ==
    /\ pc \in {"file", "append"}
          => /\ progress'.canceled = progress.canceled
             /\ \/ pc' = "append" /\ i' = i
                \/ pc' = "loop" /\ i' = i + 1
    /\ (pc = "loop" /\ i < N /\ progress'.canceled)
          => pc' = "after_loop" /\ i' = i

C5_CancelAtFileBoundary == []C5_NothingAfterCancel /\ [][C5_FileStep]_vars

\* A finished run that was cancelled before its last file, after two files.
C5_Witness == pc = "done" /\ Broke /\ i = 2 /\ N = 3

----------------------------------------------------------------------------
\* C6: the destination path never holds a partial output: a file written by
\* the run at the destination is complete and holds all merged pages.
C6_AtomicOutput ==
    OutFile.tag = "out" => (OutFile.complete /\ OutFile.pages = merger)

----------------------------------------------------------------------------
\* C7: while no page has been merged nothing is written at the destination
\* and no success is reported; a run that went through all files without
\* merging a page ends with the "No Content" report.
C7_ZeroPagesNoOp ==
    (RunStarted /\ Len(merger) = 0)
        => /\ OutFile.tag # "out"
           /\ result # "Combination Successful"
           /\ (pc = "done" /\ i = N) => result = "No Content"

\* A finished run over two or more files, all of them skipped.
C7_Witness ==
    /\ pc = "done" /\ RunStarted
    /\ N >= 2 /\ i = N
    /\ \A j \in Range(ordered_files_to_combine) : Skipped(j)
    /\ result = "No Content"

----------------------------------------------------------------------------
\* C8: with an empty combine list the handler returns in its first step with
\* the "No Files Selected" warning; no file is created and no page is merged.
C8_EmptyStep ==
    (pc = "idle" /\ Len(selected_files_list) = 0)
        => /\ pc' = "done"
           /\ result' = "No Files Selected"
           /\ fs' = fs

C8_EmptyDone ==
    (Len(files) = 0 /\ pc = "done")
        => /\ result = "No Files Selected"
           /\ merger = <<>>
           /\ \A p \in Paths : fs[p] = NoFile

C8_EmptyList == [][C8_EmptyStep]_vars /\ []C8_EmptyDone

C8_Witness == Len(files) = 0 /\ pc = "done" /\ result = "No Files Selected"

----------------------------------------------------------------------------
\* C9, as stated: every input file that existed before the run exists in
\* every state of the run, whatever the configuration.
C9_NoInputEverDeleted ==
    \A j \in 1..Len(files) : ~Deleted(j)

\* C9, amended: an input file is deleted only in a run with delete-originals
\* configured that has reported success; in every other run every input file
\* that existed before the run still exists.
C9_DeletedOnlyIfConfigured ==
    \A j \in 1..Len(files) :
        Deleted(j) => (delete_originals /\ result = "Combination Successful")

\* A finished, successful run without delete-originals over existing inputs.
C9_Witness ==
    /\ pc = "done"
    /\ ~delete_originals
    /\ result = "Combination Successful"
    /\ N >= 2
    /\ \A j \in 1..N : files[j].exists /\ ~Deleted(j)

----------------------------------------------------------------------------
\* C10: an original is deleted only if delete-originals is configured and the
\* output was written in that run, and never in a run that was cancelled,
\* merged no page, or failed to write.
C10_DeleteOnlyAfterSuccess ==
    \A j \in 1..Len(files) :
        Deleted(j) => /\ delete_originals
                      /\ result = "Combination Successful"
                      /\ ~Broke

----------------------------------------------------------------------------
\* C11: no step of the run changes the content of an original input file:
\* every input that existed before the run and still exists holds the content
\* it had before the run, whatever output path was chosen.
C11_InputsUnchanged ==
    \A j \in 1..Len(files) :
        (files[j].exists /\ fs[In(j)].tag # "none")
            => fs[In(j)] = OriginalContent(files[j], j)

----------------------------------------------------------------------------
\* C12: a failed write of the final output ends the run with the whole-run
\* outcome "Combination Error": the failing step shows no per-file notice,
\* and the outcome stays until the run returns, so the run is never reported
\* as successful.
C12_WriteFailStep ==
    (pc \in {"write", "writing"} /\ pc' = "finally")
        => /\ result' = "Combination Error"
           /\ messages' = messages

C12_OutcomeStays ==
    result = "Combination Error"
        => /\ result' = "Combination Error"
           /\ messages' = messages
           /\ pc' \in {"finally", "done"}

C12_WriteFailure == [][C12_WriteFailStep /\ C12_OutcomeStays]_vars

\* A finished run whose write failed part-way, after pages were merged.
C12_Witness ==
    /\ pc = "done"
    /\ result = "Combination Error"
    /\ Len(merger) > 0
    /\ OutFile.tag = "out" /\ ~OutFile.complete

----------------------------------------------------------------------------
\* C13: every page of the written output has exactly the A4 size, 595 x 842
\* points, whatever the size or orientation of the input page.
C13_OutputPagesA4 ==
    Written => \A x \in 1..Len(OutFile.pages) :
                  OutputPageSize(OutFile.pages[x]) = <<595, 842>>

----------------------------------------------------------------------------
\* C14: a source page of size sw x sh is placed on the 595 x 842 target page
\* with scale = min(595/sw, 842/sh), tx = (595 - sw*scale)/2 and
\* ty = (842 - sh*scale)/2, so that the scaled content lies inside the target
\* page.  (The scale is the fraction sn/sd; the equations are multiplied out.)
SourceDims(pg) ==
    LET sz == files[pg[1]].size
    IN IF files[pg[1]].kind = "pdf" /\ sz[1] > sz[2] THEN <<sz[2], sz[1]>> ELSE sz

C14_TransformOf(pg) ==
    LET sw == SourceDims(pg)[1]
        sh == SourceDims(pg)[2]
        t == AppliedTransform(pg)
        widthBound == 595 * sh <= 842 * sw
    IN /\ IF widthBound THEN t.sn * sw = 595 * t.sd ELSE t.sn * sh = 842 * t.sd
       /\ 2 * t.tx * t.sd = 595 * t.sd - sw * t.sn
       /\ 2 * t.ty * t.sd = 842 * t.sd - sh * t.sn
       /\ sw * t.sn <= 595 * t.sd
       /\ sh * t.sn <= 842 * t.sd

C14_FitTransform ==
    Written => \A x \in 1..Len(OutFile.pages) : C14_TransformOf(OutFile.pages[x])

----------------------------------------------------------------------------
\* C15: a page of a PDF input that is wider than high is rotated by 90
\* degrees before it is scaled; a page that is not wider than high is not
\* rotated.
C15_LandscapeRotated ==
    Written => \A x \in 1..Len(OutFile.pages) :
                  LET pg == OutFile.pages[x]
                      sz == files[pg[1]].size
                  IN files[pg[1]].kind = "pdf"
                        => AppliedRotation(pg) = (IF sz[1] > sz[2] THEN 90 ELSE 0)

----------------------------------------------------------------------------
\* C16: a PDF input that cannot be parsed, or that has no page, is a failed
\* input: once it has been processed it has contributed no page, a notice was
\* shown for it, and it is not among the files recorded as processed.
C16_FailedPdf ==
    \A j \in Range(ordered_files_to_combine) :
        (/\ files[j].kind = "pdf"
         /\ files[j].exists
         /\ (~files[j].ok \/ files[j].pages = 0)
         /\ PosOf(j) <= i)
            => /\ CountOf(merger, j) = 0
               /\ Skipped(j)
               /\ In(j) \notin Range(original_files_processed_for_deletion)

----------------------------------------------------------------------------
\* C17: an input whose extension is neither .pdf nor .png contributes no
\* page and no temporary file, is not recorded as processed, gets a notice,
\* and the loop goes on with the next file.
Unsupported(j) == files[j].kind \notin {"pdf", "png"}

C17_SkipStep ==
    (pc = "file" /\ fs[In(Cur)].tag # "none" /\ Unsupported(Cur))
        => /\ messages' = Append(messages, [title |-> "Skipping unsupported file",
                                             file |-> Cur])
           /\ merger' = merger
           /\ i' = i + 1
           /\ pc' = "loop"
           /\ result' = "none"

C17_NothingTaken ==
    \A j \in Range(ordered_files_to_combine) :
        Unsupported(j)
            => /\ CountOf(merger, j) = 0
               /\ OutFile.tag = "out" => CountOf(OutFile.pages, j) = 0
               /\ In(j) \notin Range(original_files_processed_for_deletion)
               /\ Tmp(j) \notin Range(temp_pdf_files_created)
               /\ PosOf(j) <= i => Skipped(j)

C17_UnsupportedSkipped == [][C17_SkipStep]_vars /\ []C17_NothingTaken

\* A successful run that skipped a file of another extension and merged the
\* file after it.
C17_Witness ==
    /\ pc = "done"
    /\ result = "Combination Successful"
    /\ \E a, b \in Range(ordered_files_to_combine) :
          /\ PosOf(a) < PosOf(b)
          /\ Unsupported(a) /\ Skipped(a)
          /\ CountOf(merger, b) >= 1

----------------------------------------------------------------------------
\* C18: a PNG input that was processed successfully has contributed exactly
\* one page, to the writer and to the output written from it.
C18_OnePagePerImage ==
    \A j \in Range(ordered_files_to_combine) :
        (files[j].kind = "png" /\ Succeeded(j))
            => /\ CountOf(merger, j) = 1
               /\ (OutFile.tag = "out" /\ OutFile.complete)
                     => CountOf(OutFile.pages, j) = 1

\* A written output over two converted images and a PDF of two pages.
C18_Witness ==
    /\ Written
    /\ \E a, b, c \in Range(ordered_files_to_combine) :
          /\ a # b
          /\ files[a].kind = "png" /\ Succeeded(a)
          /\ files[b].kind = "png" /\ Succeeded(b)
          /\ CountOf(OutFile.pages, c) = 2

----------------------------------------------------------------------------
\* C19: a file handle opened for an input is closed before the next input is
\* processed, on success and on failure: while a file is being processed no
\* document of another input is open.
C19_HandlesClosed ==
    pc \in {"file", "append"} => img_doc \in {NoName, In(Cur)}

----------------------------------------------------------------------------
\* C20: a concurrent run saving to another output path does not interfere
\* with this run: the temporary file this run wrote is still there when this
\* run appends it, and, the inputs being intact, no append fails, as in a run
\* on its own.
C20_NoInterference ==
    /\ (pc = "append" /\ actual_pdf_to_merge \in Range(temp_pdf_files_created))
          => fs[actual_pdf_to_merge].tag = "temp"
    /\ \A k \in 1..Len(messages) : messages[k].title # "PDF Append Error"

----------------------------------------------------------------------------
\* C21: within one run nothing is retried: the loop index never goes back,
\* a file that was looked at is left behind by the next loop step, no file
\* gets more than one notice or is recorded more than once, a file contributes
\* its pages at most once, and a skipped file contributes nothing.
NoticesOf(j) == Cardinality({k \in 1..Len(messages) : messages[k].file = j})

RecordedTimes(j) ==
    Cardinality({k \in 1..Len(original_files_processed_for_deletion) :
                    original_files_processed_for_deletion[k] = In(j)})

C21_IndexStep ==
    /\ i' >= i
    /\ (pc = "file" /\ pc' = "loop") => i' = i + 1
    /\ pc = "append" => (pc' = "loop" /\ i' = i + 1)

C21_AtMostOnce ==
    \A j \in Range(ordered_files_to_combine) :
        /\ NoticesOf(j) <= 1
        /\ RecordedTimes(j) <= 1
        /\ CountOf(merger, j) <= ExpectedPages(j)
        /\ Skipped(j) => CountOf(merger, j) = 0

C21_NoRetry == [][C21_IndexStep]_vars /\ []C21_AtMostOnce

\* A finished run in which the first file failed and two later files were
\* merged.
C21_Witness ==
    /\ pc = "done"
    /\ N >= 3
    /\ i = N
    /\ NoticesOf(ordered_files_to_combine[1]) = 1
    /\ CountOf(merger, ordered_files_to_combine[2]) >= 1
    /\ CountOf(merger, ordered_files_to_combine[3]) >= 1

----------------------------------------------------------------------------
\* C22: the result of a run is a function of the ordered input list and the
\* content of the files: in every run that was not cancelled and met no I/O
\* fault on a temporary file, the written output holds exactly the pages of
\* the decodable inputs, in list order, and exactly the other inputs were
\* skipped; so two such runs on the same inputs agree in both.
Decodable(j) == files[j].exists /\ files[j].ok

PagesOfInput(j) == [p \in 1..ExpectedPages(j) |-> <<j, p>>]

RECURSIVE ExpectedOutput(_)
ExpectedOutput(l) ==
    IF l = <<>> THEN <<>>
    ELSE (IF Decodable(Head(l)) THEN PagesOfInput(Head(l)) ELSE <<>>)
            \o ExpectedOutput(Tail(l))

\* The write of a temporary file failed for an intact image.
TempFault ==
    \E k \in 1..Len(messages) :
        messages[k].title = "PNG Conversion Error" /\ files[messages[k].file].ok

----------------------------------------------------------------------------
\* C23: when a run that entered the processing loop has returned, no
\* temporary conversion file written by the run is left, also not one whose
\* write failed part-way.
C23_NoTempLeft ==
    (pc = "done" /\ RunStarted)
        => \A j \in Range(ordered_files_to_combine) : fs[Tmp(j)].tag # "temp"

----------------------------------------------------------------------------
\* C24: an input file is deleted only if it was recorded as processed and no
\* notice was shown for it (it was not missing, its conversion and its append
\* did not fail), and the deletion step removes no temporary conversion file.
C24_DeletedWereAppended ==
    \A j \in 1..Len(files) :
        Deleted(j) => /\ j \in Range(ordered_files_to_combine)
                      /\ ~Skipped(j)
                      /\ In(j) \in Range(original_files_processed_for_deletion)
                      /\ CountOf(merger, j) = ExpectedPages(j)

C24_DeleteStep ==
    pc = "delete" => \A j \in Slots : fs'[Tmp(j)] = fs[Tmp(j)]

C24_OnlyAppendedDeleted == [][C24_DeleteStep]_vars /\ []C24_DeletedWereAppended

\* A finished run with delete-originals that deleted a merged PDF and the
\* PNG behind a temporary file, and kept a file that failed.
C24_Witness ==
    /\ pc = "done"
    /\ delete_originals
    /\ \E a, b, c \in Range(ordered_files_to_combine) :
          /\ files[a].kind = "pdf" /\ Deleted(a)
          /\ files[b].kind = "png" /\ Deleted(b)
          /\ files[c].exists /\ Skipped(c) /\ ~Deleted(c)

----------------------------------------------------------------------------
\* C25: once the run has reported "Combination Successful", the combined
\* output is at the chosen output path when the run returns, whatever path
\* was chosen and whether or not delete-originals is on.
C25_OutputKept ==
    (pc = "done" /\ result = "Combination Successful")
        => (OutFile.tag = "out" /\ OutFile.complete)

----------------------------------------------------------------------------
\* C26: the combine list is always sorted by non-decreasing (order value,
\* file name), and a combination takes the files in exactly the order the
\* list has when the button is clicked and merges them in that order.
C26_Sorted ==
    \A k \in 1..(Len(selected_files_list) - 1) :
        LET a == selected_files_list[k]
            b == selected_files_list[k + 1]
        IN order[a] < order[b] \/ (order[a] = order[b] /\ a <= b)

C26_RunTakesList ==
    (pc = "idle" /\ pc' = "loop") => ordered_files_to_combine' = selected_files_list

C26_SortedList ==
    /\ [][C26_RunTakesList]_vars
    /\ [](C26_Sorted /\ InOrder(merger))

\* A finished run over a list in which the order values put the second file
\* by name in front of the first.
C26_Witness ==
    /\ pc = "done"
    /\ ordered_files_to_combine = <<2, 1>>
    /\ merger = <<<<2, 1>>, <<1, 1>>>>

----------------------------------------------------------------------------
\* C27: a file added to the combine list stands after every file that was in
\* the list before the call, also when files were removed from the list
\* before.
PlaceIn(l, j) == CHOOSE k \in 1..Len(l) : l[k] = j

C27_AddStep ==
    (pc = "idle" /\ pc' = "idle" /\ Len(selected_files_list') > Len(selected_files_list))
        => \A old \in Range(selected_files_list) :
           \A new \in Range(selected_files_list') \ Range(selected_files_list) :
              PlaceIn(selected_files_list', old) < PlaceIn(selected_files_list', new)

C27_AddedLast == [][C27_AddStep]_vars

----------------------------------------------------------------------------
\* C28: the combine list never holds two entries for one file, whatever was
\* added, removed, reordered or reconciled.
C28_NoDuplicates ==
    \A a, b \in 1..Len(selected_files_list) :
        a # b => selected_files_list[a] # selected_files_list[b]

\* A finished run over a list that holds every file of the directory once:
\* every Add offered files already listed.
C28_Witness ==
    /\ pc = "done"
    /\ Range(selected_files_list) = 1..Len(files)
    /\ Len(selected_files_list) = Len(files)
    /\ Len(files) >= 2

----------------------------------------------------------------------------
\* C29: whenever no handler is running, the combine button is enabled if and
\* only if the combine list is not empty.
C29_ButtonState ==
    pc \in {"idle", "done"} => (btn_combine_files <=> Len(selected_files_list) > 0)

\* A run with delete-originals has removed every listed file, the list was
\* reconciled to empty, and the button is disabled.
C29_Witness ==
    /\ pc = "done"
    /\ ordered_files_to_combine # <<>>
    /\ selected_files_list = <<>>
    /\ ~btn_combine_files

----------------------------------------------------------------------------
\* C30: in the Image Blender dialog the save button is enabled exactly when
\* a blended image is held; after a blend that failed with an error no
\* blended image is held and the button is disabled; and a step taken while
\* fewer than two images are loaded changes neither.
C30_ButtonIffImage ==
    /\ save_button <=> blended_image # [size |-> <<0, 0>>, mode |-> "none"]
    /\ result_preview_label = "Blending Error."
          => (blended_image.mode = "none" /\ ~save_button)

C30_TooFewImages ==
    (pil_image1.mode = "none" \/ pil_image2.mode = "none")
        => (blended_image' = blended_image /\ save_button' = save_button)

====
